---- MODULE Spec2Model ----
(***************************************************************************)
(* Model of the MCP23017 I2C GPIO expander driver (MCP23017.hpp).          *)
(*                                                                         *)
(* The driver holds only a file descriptor.  Every public operation is a   *)
(* sequence of register transactions (readReg / writeReg) against the      *)
(* chip's register file.  The model keeps the register file, the handle,   *)
(* and, for the last call, its arguments, the registers it started from,   *)
(* the transactions it issued and the value it returned.                   *)
(***************************************************************************)
EXTENDS Integers, Sequences, FiniteSets, TLC

VARIABLES
    fd,       \* the descriptor returned by open(): -1 when open failed
    addrOk,   \* TRUE iff ioctl(fd, I2C_SLAVE, address) succeeded
    regs,     \* the chip's register file: register address -> byte
    ncalls,   \* number of public calls made so far on this instance
    call,     \* the last call: operation and arguments as the caller gave them
    pre,      \* the register file when the last call started
    log,      \* the transactions the last call issued, in order
    ret,      \* what the last call returned, as a sequence (<<>> for void)
    th,       \* concurrent callers: per-thread position and locals of pinMode
    overlap   \* TRUE once a concurrent call started while another was running

vars == <<fd, addrOk, regs, ncalls, call, pre, log, ret, th, overlap>>

----------------------------------------------------------------------------
(* Bounds of the model *)

\* Serialized public calls made on one instance.
MaxCalls == 2

\* Transactions of one call that may fail are those numbered 1..MaxFailTx.
MaxFailTx == 2

\* Serialized public calls made on one instance over a failing transport.
MaxFaultyCalls == 1

\* Per-pin configuring calls made on one instance before a further such call
\* is applied to the result in both orders.
MaxPinCalls == 1

----------------------------------------------------------------------------
(* Enumerations and register map *)

INPUT == 1
OUTPUT == 0
INPUT_PULLUP == 3

HIGH == 1
LOW == 0
ERROR == 255

CHANGE == 2
RISING == 1
FALLING == 0

IODIRA == 0
IODIRB == 1
GPPUA == 12
GPPUB == 13
GPIOA == 18
GPIOB == 19
OLATA == 20
OLATB == 21
GPINTENA == 4
GPINTENB == 5
IOCON == 10
DEFVALA == 6
DEFVALB == 7
INTFA == 14
INTFB == 15
INTCAPA == 16
INTCAPB == 17
INTCONA == 8
INTCONB == 9

\* The registers the driver addresses, in address order.
RegList ==
    <<IODIRA, IODIRB, GPINTENA, GPINTENB, DEFVALA, DEFVALB, INTCONA, INTCONB,
      IOCON, GPPUA, GPPUB, INTFA, INTFB, INTCAPA, INTCAPB, GPIOA, GPIOB,
      OLATA, OLATB>>

Regs == {RegList[i] : i \in 1..Len(RegList)}

----------------------------------------------------------------------------
(* Integer arithmetic of the C++ types *)

\* Conversion of a caller's int to a uint8_t parameter.
ToU8(x) == x % 256

\* Conversion of a caller's int to a uint16_t parameter.
ToU16(x) == x % 65536

\* Bit i of x.
BitAt(x, i) == (x \div (2 ^ i)) % 2

\* The operands of | and & are at most 16 bits wide here.
BitPositions == 0..15

\* Sum of 2^i over the bit positions i in S.
Weight(S) ==
    LET w(i) == IF i \in S THEN 2 ^ i ELSE 0
    IN  w(0) + w(1) + w(2) + w(3) + w(4) + w(5) + w(6) + w(7)
        + w(8) + w(9) + w(10) + w(11) + w(12) + w(13) + w(14) + w(15)

\* x | y on the low w bits.
OrBits(x, y, w) ==
    Weight({i \in BitPositions : i < w /\ (BitAt(x, i) = 1 \/ BitAt(y, i) = 1)})

\* x & y on the low w bits.
AndBits(x, y, w) ==
    Weight({i \in BitPositions : i < w /\ BitAt(x, i) = 1 /\ BitAt(y, i) = 1})

\* ~x on the low w bits.
NotBits(x, w) == (2 ^ w) - 1 - (x % (2 ^ w))

\* 1 << bit
Shl1(bit) == 2 ^ bit

\* val |= (1 << bit), val a uint8_t and bit in 0..7
SetBit(val, bit) == OrBits(val, Shl1(bit), 8)

\* val &= ~(1 << bit): the int result is truncated to uint8_t on assignment
ClearBit(val, bit) == AndBits(val, NotBits(Shl1(bit), 8), 8)

----------------------------------------------------------------------------
(* Transport: one register transaction at a time *)

\* The handle and the failures of the transport during one call.
IO(fails) == [fd |-> fd, addrOk |-> addrOk, fails |-> fails]

\* write()/read() on the descriptor succeed for the n-th transaction of a call.
TxOk(io, n) == io.fd >= 0 /\ io.addrOk /\ n \notin io.fails

\* The register file and the transactions issued so far by the running call.
Machine(r, l) == [regs |-> r, log |-> l]

writeReg(m, io, reg, value) ==
    LET ok == TxOk(io, Len(m.log) + 1)
    IN  Machine(IF ok THEN [m.regs EXCEPT ![reg] = value] ELSE m.regs,
                Append(m.log, [kind |-> "W", reg |-> reg, value |-> value, ok |-> ok]))

\* The n-th transaction of a call, a read of reg: the byte read, or 0 (the
\* initial value of the local) when write() or read() fails.
ReadTx(r, io, n, reg) ==
    LET ok == TxOk(io, n)
    IN  [kind |-> "R", reg |-> reg, value |-> IF ok THEN r[reg] ELSE 0, ok |-> ok]

readReg(m, io, reg) ==
    LET tx == ReadTx(m.regs, io, Len(m.log) + 1, reg)
    IN  [m |-> Machine(m.regs, Append(m.log, tx)), value |-> tx.value]

pinCheck(pin) == ~(pin < 0 \/ pin > 15)

\* What an operation hands back: the machine it leaves and its return value.
Out(m, r) == [m |-> m, ret |-> r]

----------------------------------------------------------------------------
(* Public operations *)

\* Variant of the first switch: OUTPUT assigns ~(1 << bit) instead of and-ing it.
PinModeDirMut(dirVal, bit, mode) ==
    CASE mode = OUTPUT -> NotBits(Shl1(bit), 8)
      [] mode \in {INPUT, INPUT_PULLUP} -> SetBit(dirVal, bit)
      [] OTHER -> dirVal

\* First switch of pinMode: the new direction byte.
PinModeDir(dirVal, bit, mode) ==
    CASE mode = OUTPUT -> ClearBit(dirVal, bit)
      [] mode \in {INPUT, INPUT_PULLUP} -> SetBit(dirVal, bit)
      [] OTHER -> dirVal

\* Variant of the second switch: INPUT leaves the pull-up byte alone.
PinModePupMut(pupVal, bit, mode) ==
    CASE mode = INPUT_PULLUP -> SetBit(pupVal, bit)
      [] mode = OUTPUT -> ClearBit(pupVal, bit)
      [] OTHER -> pupVal

\* Second switch of pinMode: the new pull-up byte.
PinModePup(pupVal, bit, mode) ==
    CASE mode = INPUT_PULLUP -> SetBit(pupVal, bit)
      [] mode \in {INPUT, OUTPUT} -> ClearBit(pupVal, bit)
      [] OTHER -> pupVal

pinMode(m, io, pin, mode) ==
    IF ~pinCheck(pin) THEN Out(m, <<>>)
    ELSE
        LET regDir == IF pin < 8 THEN IODIRA ELSE IODIRB
            regPup == IF pin < 8 THEN GPPUA ELSE GPPUB
            bit == pin % 8
            r1 == readReg(m, io, regDir)
            r2 == readReg(r1.m, io, regPup)
            dirVal == PinModeDir(r1.value, bit, mode)
            pupVal == PinModePup(r2.value, bit, mode)
        IN  IF mode \notin {OUTPUT, INPUT, INPUT_PULLUP} THEN Out(r2.m, <<>>)
            ELSE Out(writeReg(writeReg(r2.m, io, regDir, dirVal), io, regPup, pupVal), <<>>)

\* Variant of the priming read: the base byte comes from GPIO (reg - 2).
PinWriteBaseMut(m, io, reg) == readReg(m, io, reg - 2)

\* The read that primes pinWrite: the base byte comes from the latch register.
PinWriteBase(m, io, reg) == readReg(m, io, reg)

pinWrite(m, io, pin, value) ==
    IF ~pinCheck(pin) THEN Out(m, <<>>)
    ELSE
        LET reg == IF pin < 8 THEN OLATA ELSE OLATB
            bit == pin % 8
            r1 == PinWriteBase(m, io, reg)
        IN  CASE value = HIGH -> Out(writeReg(r1.m, io, reg, SetBit(r1.value, bit)), <<>>)
              [] value = LOW -> Out(writeReg(r1.m, io, reg, ClearBit(r1.value, bit)), <<>>)
              [] OTHER -> Out(r1.m, <<>>)


\* Variant of pinRead: the byte comes from the output latch (reg + 2).
pinReadMut(m, io, pin) ==
    IF ~pinCheck(pin) THEN Out(m, <<ERROR>>)
    ELSE
        LET reg == IF pin < 8 THEN OLATA ELSE OLATB
            bit == pin % 8
            r1 == readReg(m, io, reg)
        IN  Out(r1.m, <<IF BitAt(r1.value, bit) = 1 THEN HIGH ELSE LOW>>)

pinRead(m, io, pin) ==
    IF ~pinCheck(pin) THEN Out(m, <<ERROR>>)
    ELSE
        LET reg == IF pin < 8 THEN GPIOA ELSE GPIOB
            bit == pin % 8
            r1 == readReg(m, io, reg)
        IN  Out(r1.m, <<IF BitAt(r1.value, bit) = 1 THEN HIGH ELSE LOW>>)

\* Variant of enableInt: disabling assigns 0 instead of clearing one bit.
enableIntMut(m, io, pin, enable) ==
    IF ~pinCheck(pin) THEN Out(m, <<>>)
    ELSE
        LET regGPINTEN == IF pin < 8 THEN GPINTENA ELSE GPINTENB
            bit == pin % 8
            r1 == readReg(m, io, regGPINTEN)
            regVal == IF enable THEN SetBit(r1.value, bit) ELSE 0
        IN  Out(writeReg(r1.m, io, regGPINTEN, regVal), <<>>)

enableInt(m, io, pin, enable) ==
    IF ~pinCheck(pin) THEN Out(m, <<>>)
    ELSE
        LET regGPINTEN == IF pin < 8 THEN GPINTENA ELSE GPINTENB
            bit == pin % 8
            r1 == readReg(m, io, regGPINTEN)
            regVal == IF enable THEN SetBit(r1.value, bit) ELSE ClearBit(r1.value, bit)
        IN  Out(writeReg(r1.m, io, regGPINTEN, regVal), <<>>)

\* Variant of intOutputMode: the polarity bit follows w_INTPOL even with open drain.
IntOutputValMut(val, w_INTPOL, w_ODR, w_MIRROR) ==
    LET v1 == IF w_ODR THEN SetBit(val, 2) ELSE ClearBit(val, 2)
        v2 == IF w_INTPOL = HIGH THEN SetBit(v1, 1) ELSE ClearBit(v1, 1)
    IN  IF w_MIRROR THEN SetBit(v2, 6) ELSE ClearBit(v2, 6)

\* The control byte intOutputMode writes back, from the byte it read.
IntOutputVal(val, w_INTPOL, w_ODR, w_MIRROR) ==
    LET v1 == IF w_ODR THEN SetBit(val, 2) ELSE ClearBit(val, 2)
        v2 == IF ~w_ODR
              THEN (IF w_INTPOL = HIGH THEN SetBit(v1, 1) ELSE ClearBit(v1, 1))
              ELSE ClearBit(v1, 1)
    IN  IF w_MIRROR THEN SetBit(v2, 6) ELSE ClearBit(v2, 6)

intOutputMode(m, io, w_INTPOL, w_ODR, w_MIRROR) ==
    LET r1 == readReg(m, io, IOCON)
    IN  Out(writeReg(r1.m, io, IOCON, IntOutputVal(r1.value, w_INTPOL, w_ODR, w_MIRROR)), <<>>)

\* Switch of intTriggerMode: the new interrupt-control byte.
TriggerCon(intConVal, bit, mode) ==
    CASE mode = CHANGE -> ClearBit(intConVal, bit)
      [] mode \in {RISING, FALLING} -> SetBit(intConVal, bit)
      [] OTHER -> intConVal

\* Variant of the switch: CHANGE sets the default-compare bit.
TriggerDefMut(defVal, bit, mode) ==
    CASE mode \in {RISING, CHANGE} -> SetBit(defVal, bit)
      [] mode = FALLING -> ClearBit(defVal, bit)
      [] OTHER -> defVal

\* Switch of intTriggerMode: the new default-compare byte.
TriggerDef(defVal, bit, mode) ==
    CASE mode = RISING -> SetBit(defVal, bit)
      [] mode = FALLING -> ClearBit(defVal, bit)
      [] OTHER -> defVal

intTriggerMode(m, io, pin, mode) ==
    IF ~pinCheck(pin) THEN Out(m, <<>>)
    ELSE
        LET regDEFVAL == IF pin < 8 THEN DEFVALA ELSE DEFVALB
            regINTCON == IF pin < 8 THEN INTCONA ELSE INTCONB
            bit == pin % 8
            r1 == readReg(m, io, regINTCON)
            r2 == readReg(r1.m, io, regDEFVAL)
            intConVal == TriggerCon(r1.value, bit, mode)
            defVal == TriggerDef(r2.value, bit, mode)
        IN  IF mode \notin {CHANGE, RISING, FALLING} THEN Out(r2.m, <<>>)
            ELSE Out(writeReg(writeReg(r2.m, io, regINTCON, intConVal), io, regDEFVAL, defVal), <<>>)

\* Variant of the assembly: bank A in the high byte.
Flags16Mut(a, b) == OrBits(a * (2 ^ 8), b, 16)

\* (uint16_t(b) << 8) | a
Flags16(a, b) == OrBits(b * (2 ^ 8), a, 16)

\* Variant of readIntFlags: the flag registers are zeroed before they are read.
readIntFlagsMut(m, io, clear) ==
    LET m0 == IF clear THEN writeReg(writeReg(m, io, INTFA, 0), io, INTFB, 0) ELSE m
        ra == readReg(m0, io, INTFA)
        rb == readReg(ra.m, io, INTFB)
    IN  [m |-> rb.m, value |-> Flags16(ra.value, rb.value)]

readIntFlags(m, io, clear) ==
    LET ra == readReg(m, io, INTFA)
        rb == readReg(ra.m, io, INTFB)
        flags == Flags16(ra.value, rb.value)
    IN  IF clear
        THEN [m |-> writeReg(writeReg(rb.m, io, INTFA, 0), io, INTFB, 0), value |-> flags]
        ELSE [m |-> rb.m, value |-> flags]

getInterruptFlags(m, io, clear) ==
    LET r == readIntFlags(m, io, clear)
    IN  Out(r.m, <<r.value>>)

RECURSIVE PinsFromMut(_, _)
\* Variant of the loop of getInterruptPins: it stops before pin 15.
PinsFromMut(flags, pin) ==
    IF pin >= 15 THEN <<>>
    ELSE (IF AndBits(flags, Shl1(pin), 16) # 0 THEN <<pin>> ELSE <<>>) \o PinsFromMut(flags, pin + 1)

RECURSIVE PinsFrom(_, _)
\* The loop of getInterruptPins from index pin on.
PinsFrom(flags, pin) ==
    IF pin >= 16 THEN <<>>
    ELSE (IF AndBits(flags, Shl1(pin), 16) # 0 THEN <<pin>> ELSE <<>>) \o PinsFrom(flags, pin + 1)

getInterruptPins(m, io, clear) ==
    LET r == readIntFlags(m, io, clear)
    IN  Out(r.m, PinsFrom(r.value, 0))

isInterruptOnPin(m, io, pin, clear) ==
    IF ~pinCheck(pin) THEN Out(m, <<FALSE>>)
    ELSE
        LET r == readIntFlags(m, io, clear)
        IN  Out(r.m, <<AndBits(r.value, Shl1(pin), 16) # 0>>)

\* Variant of clearIntCapture's choice: always the bank A input register.
ClearCaptureRegMut(pin) == GPIOA

\* The register clearIntCapture reads.  No range check: any pin index that
\* is not below 8 selects GPIOB.
ClearCaptureReg(pin) == IF pin < 8 THEN GPIOA ELSE GPIOB

clearIntCapture(m, io, pin) == Out(readReg(m, io, ClearCaptureReg(pin)).m, <<>>)

RECURSIVE EventsFromMut(_, _, _)
\* Variant of the loop of getIntCapture: the level is taken from the flags.
EventsFromMut(flags, captured, pin) ==
    IF pin >= 16 THEN <<>>
    ELSE (IF AndBits(flags, Shl1(pin), 16) # 0
          THEN <<[pin |-> pin, level |-> AndBits(flags, Shl1(pin), 16) # 0]>>
          ELSE <<>>) \o EventsFromMut(flags, captured, pin + 1)

RECURSIVE EventsFrom(_, _, _)
\* The loop of getIntCapture from index pin on: the events pushed.
EventsFrom(flags, captured, pin) ==
    IF pin >= 16 THEN <<>>
    ELSE (IF AndBits(flags, Shl1(pin), 16) # 0
          THEN <<[pin |-> pin, level |-> AndBits(captured, Shl1(pin), 16) # 0]>>
          ELSE <<>>) \o EventsFrom(flags, captured, pin + 1)

\* With clear, the loop calls clearIntCapture(pin) right after pushing each
\* event: the k-th event's read is the (4 + k)-th transaction of the call.
getIntCapture(m, io, clear) ==
    LET ra == readReg(m, io, INTFA)
        rb == readReg(ra.m, io, INTFB)
        flags == Flags16(ra.value, rb.value)
        rcA == readReg(rb.m, io, INTCAPA)
        rcB == readReg(rcA.m, io, INTCAPB)
        captured == Flags16(rcA.value, rcB.value)
        events == EventsFrom(flags, captured, 0)
        acks == IF clear
                THEN [k \in 1..Len(events) |->
                        ReadTx(m.regs, io, 4 + k, ClearCaptureReg(events[k].pin))]
                ELSE <<>>
    IN  Out(Machine(rcB.m.regs, rcB.m.log \o acks), events)

\* Variant of clearInterrupts: the flag writes come before the input reads.
clearInterruptsMut(m, io) ==
    LET w == writeReg(writeReg(m, io, INTFA, 0), io, INTFB, 0)
        r1 == readReg(w, io, GPIOA)
    IN  Out(readReg(r1.m, io, GPIOB).m, <<>>)

clearInterrupts(m, io) ==
    LET r1 == readReg(m, io, GPIOA)
        r2 == readReg(r1.m, io, GPIOB)
    IN  Out(writeReg(writeReg(r2.m, io, INTFA, 0), io, INTFB, 0), <<>>)

enableSlewRateControl(m, io, enabled) ==
    LET r1 == readReg(m, io, IOCON)
        iocon == IF enabled THEN SetBit(r1.value, 4) ELSE ClearBit(r1.value, 4)
    IN  Out(writeReg(r1.m, io, IOCON, iocon), <<>>)

setSequentialOperation(m, io, enabled) ==
    LET r1 == readReg(m, io, IOCON)
        iocon == IF enabled THEN ClearBit(r1.value, 5) ELSE SetBit(r1.value, 5)
    IN  Out(writeReg(r1.m, io, IOCON, iocon), <<>>)

----------------------------------------------------------------------------
(* Construction *)

\* Register contents the chip may hold when the program starts: power-on
\* reset, or what an earlier program left behind.  Rows follow RegList.
ChipImages ==
    << <<255, 255,   0,   0,   0,   0,   0,   0,   0,   0,   0,   0,   0,   0,   0,   0,   0,   0,   0>>,
       <<240,  15,   5, 128,  51, 204,  15, 170, 118, 165,  90,   5,   0,   4, 129,  60, 195,  85, 170>>,
       <<  0,   0, 255, 255, 255,   0, 255, 255,  68, 255, 255,   0,   1, 255,   0,   0, 255, 255, 255>>,
       <<129, 126, 195,  60,  90, 165, 102, 153,  50,  24, 231,   1,   0, 254,   1, 165,  90,  36, 219>>,
       <<255,   0,  16,   8,   1, 128, 128,   1,   4,   0, 255, 129, 165, 126,  90, 255,   0,   0, 255>> >>

Image(i) == [r \in Regs |-> ChipImages[i][CHOOSE k \in 1..Len(RegList) : RegList[k] = r]]

\* Variant of the constructor: the result of ioctl() is not looked at.
ConstructMut(m, io) ==
    IF io.fd < 0 THEN Out(m, <<>>)
    ELSE Out(writeReg(writeReg(m, io, IODIRA, 255), io, IODIRB, 255), <<>>)

\* MCP23017::MCP23017: the direction registers are written only when both
\* open() and ioctl() succeeded; otherwise the exception skips the writes.
Construct(m, io) ==
    IF io.fd < 0 \/ ~io.addrOk THEN Out(m, <<>>)
    ELSE Out(writeReg(writeReg(m, io, IODIRA, 255), io, IODIRB, 255), <<>>)

\* The failing transactions of one call, by their position in the call.
FailPatterns == SUBSET (1..MaxFailTx)

\* Every transaction the transport is asked for succeeds.
NoFail == {{}}

NoArg == -99

CallRec(op, pin, mode, a, b, fails) ==
    [op |-> op, pin |-> pin, mode |-> mode, a |-> a, b |-> b, fails |-> fails]

\* No call is pending: the caller has taken the last result.
IdleCall == CallRec("idle", NoArg, NoArg, FALSE, FALSE, {})

Threads == {1, 2}

IdleThreads == [t \in Threads |-> [pc |-> "none", pin |-> 0, mode |-> 0, dirVal |-> 0, pupVal |-> 0]]

\* How construction can go: both steps succeed, open() fails (ioctl is then
\* not attempted), or open() succeeds and ioctl() fails.
OpenOutcomes ==
    << [open |-> TRUE, ioctl |-> TRUE],
       [open |-> FALSE, ioctl |-> FALSE],
       [open |-> TRUE, ioctl |-> FALSE] >>

\* The instance after construction on a chip holding the registers r0, with
\* transport failures drawn from F.
Constructed(r0, F) ==
    \E k \in 1..Len(OpenOutcomes), f \in F :
        LET o == OpenOutcomes[k]
            io == [fd |-> IF o.open THEN 3 ELSE -1, addrOk |-> o.ioctl, fails |-> f]
            out == Construct(Machine(r0, <<>>), io)
        IN  /\ fd = io.fd
            /\ addrOk = io.addrOk
            /\ regs = out.m.regs
            /\ log = out.m.log
            /\ ret = out.ret
            /\ pre = r0
            /\ call = CallRec("MCP23017", NoArg, NoArg, o.open, o.ioctl, f)
            /\ ncalls = 0
            /\ th = IdleThreads
            /\ overlap = FALSE

Init == \E i \in 1..Len(ChipImages) : Constructed(Image(i), NoFail)

----------------------------------------------------------------------------
(* Serialized calls: each runs to completion before the next starts *)

\* A public call runs to completion and hands back its result.
Returns(c, out) ==
    /\ call' = c
    /\ pre' = regs
    /\ regs' = out.m.regs
    /\ log' = out.m.log
    /\ ret' = out.ret
    /\ ncalls' = ncalls + 1
    /\ UNCHANGED <<fd, addrOk, th, overlap>>

\* The caller may make its next call.
CanCall(T) == call.op = "idle" /\ ncalls < T.calls

\* What callers pass as a pin index: the first and last pin of each bank and
\* the two values next to the valid range.
PinArgs == {-1, 0, 7, 8, 15, 16}

ModeArgs == {OUTPUT, INPUT, INPUT_PULLUP, 2}

ValueArgs == {HIGH, LOW, ERROR}

TriggerArgs == {CHANGE, RISING, FALLING, 3}

Start == Machine(regs, <<>>)

\* The caller takes the result of the call that returned and goes on.
Resume ==
    /\ call.op # "idle"
    /\ call' = IdleCall
    /\ pre' = regs
    /\ log' = <<>>
    /\ ret' = <<>>
    /\ UNCHANGED <<fd, addrOk, regs, ncalls, th, overlap>>

DoPinMode(T) ==
    \E pin \in PinArgs, mode \in ModeArgs, f \in T.fails :
        /\ CanCall(T)
        /\ Returns(CallRec("pinMode", pin, mode, FALSE, FALSE, f),
                   pinMode(Start, IO(f), ToU8(pin), mode))

DoPinWrite(T) ==
    \E pin \in PinArgs, value \in ValueArgs, f \in T.fails :
        /\ CanCall(T)
        /\ Returns(CallRec("pinWrite", pin, value, FALSE, FALSE, f),
                   pinWrite(Start, IO(f), ToU8(pin), value))

DoPinRead(T) ==
    \E pin \in PinArgs, f \in T.fails :
        /\ CanCall(T)
        /\ Returns(CallRec("pinRead", pin, NoArg, FALSE, FALSE, f),
                   pinRead(Start, IO(f), ToU8(pin)))

DoEnableInt(T) ==
    \E pin \in PinArgs, enable \in BOOLEAN, f \in T.fails :
        /\ CanCall(T)
        /\ Returns(CallRec("enableInt", pin, NoArg, enable, FALSE, f),
                   enableInt(Start, IO(f), ToU8(pin), enable))

DoIntOutputMode(T) ==
    \E w_INTPOL \in ValueArgs, w_ODR \in BOOLEAN, w_MIRROR \in BOOLEAN, f \in T.fails :
        /\ CanCall(T)
        /\ Returns(CallRec("intOutputMode", NoArg, w_INTPOL, w_ODR, w_MIRROR, f),
                   intOutputMode(Start, IO(f), w_INTPOL, w_ODR, w_MIRROR))

DoIntTriggerMode(T) ==
    \E pin \in PinArgs, mode \in TriggerArgs, f \in T.fails :
        /\ CanCall(T)
        /\ Returns(CallRec("intTriggerMode", pin, mode, FALSE, FALSE, f),
                   intTriggerMode(Start, IO(f), ToU8(pin), mode))

DoGetInterruptFlags(T) ==
    \E clear \in BOOLEAN, f \in T.fails :
        /\ CanCall(T)
        /\ Returns(CallRec("getInterruptFlags", NoArg, NoArg, clear, FALSE, f),
                   getInterruptFlags(Start, IO(f), clear))

DoGetInterruptPins(T) ==
    \E clear \in BOOLEAN, f \in T.fails :
        /\ CanCall(T)
        /\ Returns(CallRec("getInterruptPins", NoArg, NoArg, clear, FALSE, f),
                   getInterruptPins(Start, IO(f), clear))

DoIsInterruptOnPin(T) ==
    \E pin \in PinArgs, clear \in BOOLEAN, f \in T.fails :
        /\ CanCall(T)
        /\ Returns(CallRec("isInterruptOnPin", pin, NoArg, clear, FALSE, f),
                   isInterruptOnPin(Start, IO(f), ToU8(pin), clear))

DoGetIntCapture(T) ==
    \E clear \in BOOLEAN, f \in T.fails :
        /\ CanCall(T)
        /\ Returns(CallRec("getIntCapture", NoArg, NoArg, clear, FALSE, f),
                   getIntCapture(Start, IO(f), clear))

DoClearIntCapture(T) ==
    \E pin \in PinArgs, f \in T.fails :
        /\ CanCall(T)
        /\ Returns(CallRec("clearIntCapture", pin, NoArg, FALSE, FALSE, f),
                   clearIntCapture(Start, IO(f), ToU16(pin)))

DoClearInterrupts(T) ==
    \E f \in T.fails :
        /\ CanCall(T)
        /\ Returns(CallRec("clearInterrupts", NoArg, NoArg, FALSE, FALSE, f),
                   clearInterrupts(Start, IO(f)))

DoEnableSlewRateControl(T) ==
    \E enabled \in BOOLEAN, f \in T.fails :
        /\ CanCall(T)
        /\ Returns(CallRec("enableSlewRateControl", NoArg, NoArg, enabled, FALSE, f),
                   enableSlewRateControl(Start, IO(f), enabled))

DoSetSequentialOperation(T) ==
    \E enabled \in BOOLEAN, f \in T.fails :
        /\ CanCall(T)
        /\ Returns(CallRec("setSequentialOperation", NoArg, NoArg, enabled, FALSE, f),
                   setSequentialOperation(Start, IO(f), enabled))

\* The interrupt status and capture queries.
StatusCallsOf(T) ==
    \/ DoGetInterruptFlags(T)
    \/ DoGetInterruptPins(T)
    \/ DoIsInterruptOnPin(T)
    \/ DoGetIntCapture(T)

\* One public call on the transport T.
CallsOf(T) ==
    \/ DoPinMode(T)
    \/ DoPinWrite(T)
    \/ DoPinRead(T)
    \/ DoEnableInt(T)
    \/ DoIntOutputMode(T)
    \/ DoIntTriggerMode(T)
    \/ StatusCallsOf(T)
    \/ DoClearIntCapture(T)
    \/ DoClearInterrupts(T)
    \/ DoEnableSlewRateControl(T)
    \/ DoSetSequentialOperation(T)

\* A transport whose transactions all succeed once the handle is valid.
Reliable == [fails |-> NoFail, calls |-> MaxCalls]

\* A transport whose transactions may fail.
Faulty == [fails |-> FailPatterns, calls |-> MaxFaultyCalls]

Next == CallsOf(Reliable) \/ Resume

\* Serialized calls on a transport whose transactions all succeed once the
\* handle is valid.
Spec == Init /\ [][Next]_vars

InitFail == \E i \in 1..Len(ChipImages) : Constructed(Image(i), FailPatterns)

NextFail == CallsOf(Faulty) \/ Resume

\* Serialized calls on a transport whose transactions may fail.
SpecFail == InitFail /\ [][NextFail]_vars

\* The caller makes per-pin configuring calls only.
PinCalls == [fails |-> NoFail, calls |-> MaxPinCalls]

NextPins ==
    \/ DoPinMode(PinCalls)
    \/ DoPinWrite(PinCalls)
    \/ DoEnableInt(PinCalls)
    \/ DoIntTriggerMode(PinCalls)
    \/ Resume

\* Serialized per-pin configuring calls on a reliable transport.
SpecPins == Init /\ [][NextPins]_vars

NextOpen == DoPinRead(Faulty) \/ Resume

\* Construction over a transport whose transactions may fail, then pin reads.
SpecOpen == InitFail /\ [][NextOpen]_vars

----------------------------------------------------------------------------
(* Interrupt status queries over many flag and capture contents *)

\* Contents of a flag register when a query starts.
FlagBytes == {0, 1, 2, 4, 5, 128, 129, 165, 255}

\* Contents of a capture register when a query starts.
CaptureBytes == {0, 90, 255}

InitIntr ==
    \E a \in FlagBytes, b \in FlagBytes, capA \in CaptureBytes, capB \in CaptureBytes :
        /\ Constructed([Image(1) EXCEPT ![INTFA] = a, ![INTFB] = b,
                                        ![INTCAPA] = capA, ![INTCAPB] = capB], NoFail)
        /\ fd >= 0
        /\ addrOk

NextIntr == StatusCallsOf(Reliable) \/ Resume

SpecIntr == InitIntr /\ [][NextIntr]_vars

----------------------------------------------------------------------------
(* Two callers in pinMode at once, interleaved at the register transactions *)

\* The pin indices and modes the concurrent callers pass.
ConcPins == {0, 7, 8, 16}

ConcModes == {OUTPUT, INPUT, INPUT_PULLUP}

Running(t) == th[t].pc \notin {"none", "done"}

ThRegDir(t) == IF th[t].pin < 8 THEN IODIRA ELSE IODIRB

ThRegPup(t) == IF th[t].pin < 8 THEN GPPUA ELSE GPPUB

\* Variant of a thread's read: it sees the registers as they were at the start.
ConcReadMut(reg) == readReg(Machine(pre, log), IO({}), reg)

\* A register read by a thread: it sees the register file as it is now.
ConcRead(reg) == readReg(Machine(regs, log), IO({}), reg)

\* Thread t enters pinMode: the range check, before any transaction.
ThCall(t) ==
    \E pin \in ConcPins, mode \in ConcModes :
        /\ th[t].pc = "none"
        /\ th' = [th EXCEPT ![t] = [pc |-> IF pinCheck(ToU8(pin)) THEN "rdDir" ELSE "done",
                                    pin |-> ToU8(pin), mode |-> mode,
                                    dirVal |-> 0, pupVal |-> 0]]
        /\ overlap' = (overlap \/ \E u \in Threads \ {t} : Running(u))
        /\ UNCHANGED <<fd, addrOk, regs, ncalls, call, pre, log, ret>>

\* uint8_t dirVal = readReg(regDir)
ThReadDir(t) ==
    /\ th[t].pc = "rdDir"
    /\ LET r == ConcRead(ThRegDir(t))
       IN  /\ th' = [th EXCEPT ![t].pc = "rdPup", ![t].dirVal = r.value]
           /\ log' = r.m.log
    /\ UNCHANGED <<fd, addrOk, regs, ncalls, call, pre, ret, overlap>>

\* uint8_t pupVal = readReg(regPup), then the two switches on the locals
ThReadPup(t) ==
    /\ th[t].pc = "rdPup"
    /\ LET r == ConcRead(ThRegPup(t))
           bit == th[t].pin % 8
           mode == th[t].mode
       IN  /\ th' = [th EXCEPT
                        ![t].pc = IF mode \notin {OUTPUT, INPUT, INPUT_PULLUP}
                                  THEN "done" ELSE "wrDir",
                        ![t].dirVal = PinModeDir(th[t].dirVal, bit, mode),
                        ![t].pupVal = PinModePup(r.value, bit, mode)]
           /\ log' = r.m.log
    /\ UNCHANGED <<fd, addrOk, regs, ncalls, call, pre, ret, overlap>>

\* writeReg(regDir, dirVal)
ThWriteDir(t) ==
    /\ th[t].pc = "wrDir"
    /\ LET m == writeReg(Machine(regs, log), IO({}), ThRegDir(t), th[t].dirVal)
       IN  /\ regs' = m.regs
           /\ log' = m.log
    /\ th' = [th EXCEPT ![t].pc = "wrPup"]
    /\ UNCHANGED <<fd, addrOk, ncalls, call, pre, ret, overlap>>

\* writeReg(regPup, pupVal), and pinMode returns
ThWritePup(t) ==
    /\ th[t].pc = "wrPup"
    /\ LET m == writeReg(Machine(regs, log), IO({}), ThRegPup(t), th[t].pupVal)
       IN  /\ regs' = m.regs
           /\ log' = m.log
    /\ th' = [th EXCEPT ![t].pc = "done"]
    /\ UNCHANGED <<fd, addrOk, ncalls, call, pre, ret, overlap>>

\* The instance was opened successfully; the two callers have not started.
InitConc ==
    \E i \in 1..Len(ChipImages) :
        /\ Constructed(Image(i), NoFail)
        /\ fd >= 0
        /\ addrOk

NextConc ==
    \E t \in Threads :
        \/ ThCall(t)
        \/ ThReadDir(t)
        \/ ThReadPup(t)
        \/ ThWriteDir(t)
        \/ ThWritePup(t)

SpecConc == InitConc /\ [][NextConc]_vars

----------------------------------------------------------------------------
(* Properties *)

\* Every transaction of the last call succeeded.
AllOk == \A i \in 1..Len(log) : log[i].ok

\* The operations that take a pin index.
PinOps ==
    {"pinMode", "pinWrite", "pinRead", "enableInt", "intTriggerMode",
     "isInterruptOnPin", "clearIntCapture"}

\* The operations that read a register, change bits of the byte and write it back.
RmwOps ==
    {"pinMode", "pinWrite", "enableInt", "intOutputMode", "intTriggerMode",
     "enableSlewRateControl", "setSequentialOperation"}

\* The register of the pin's bank.
Bank(pin, regA, regB) == IF pin < 8 THEN regA ELSE regB

\* C1: a call of an operation that takes a pin index, with an index outside
\* [0,15], issues no transaction, changes no register and returns the
\* invalid-input outcome (ERROR for pinRead, false for isInterruptOnPin).
C1_InvalidPinNoTraffic ==
    (call.op \in PinOps /\ call.pin \notin 0..15) =>
        /\ log = <<>>
        /\ regs = pre
        /\ (call.op = "pinRead" => ret = <<ERROR>>)
        /\ (call.op = "isInterruptOnPin" => ret = <<FALSE>>)

\* C2: after pinMode(p, mode) on a valid pin with all transactions
\* succeeding, OUTPUT leaves direction bit 0 and pull-up bit 0, INPUT leaves
\* direction bit 1 and pull-up bit 0, INPUT_PULLUP leaves both bits 1.
C2_PinModeBits ==
    (/\ call.op = "pinMode"
     /\ call.pin \in 0..15
     /\ call.mode \in {OUTPUT, INPUT, INPUT_PULLUP}
     /\ AllOk) =>
        LET bit == call.pin % 8
            d == BitAt(regs[Bank(call.pin, IODIRA, IODIRB)], bit)
            u == BitAt(regs[Bank(call.pin, GPPUA, GPPUB)], bit)
        IN  /\ Len(log) = 4
            /\ call.mode = OUTPUT => (d = 0 /\ u = 0)
            /\ call.mode = INPUT => (d = 1 /\ u = 0)
            /\ call.mode = INPUT_PULLUP => (d = 1 /\ u = 1)

\* pinMode(p, INPUT) ran on a pin whose pull-up was on.
C2_Witness ==
    /\ call.op = "pinMode"
    /\ call.pin \in 0..15
    /\ call.mode = INPUT
    /\ AllOk
    /\ BitAt(pre[Bank(call.pin, GPPUA, GPPUB)], call.pin % 8) = 1
    /\ BitAt(regs[Bank(call.pin, GPPUA, GPPUB)], call.pin % 8) = 0

\* C3: a pinWrite on a valid pin changes at most bit (p mod 8) of the
\* output latch of p's bank, and so does pinWrite(p, HIGH) followed by
\* pinWrite(p, LOW): every other bit of the latch byte keeps the value the
\* latch held, whatever the live input register holds.
C3_PinWriteFrame ==
    (/\ call.op = "pinWrite"
     /\ call.pin \in 0..15
     /\ call.mode \in {HIGH, LOW}
     /\ AllOk) =>
        LET bit == call.pin % 8
            reg == Bank(call.pin, OLATA, OLATB)
            thenLow == pinWrite(Machine(regs, <<>>), IO({}), call.pin, LOW).m.regs
        IN  /\ \A b \in (0..7) \ {bit} : BitAt(regs[reg], b) = BitAt(pre[reg], b)
            /\ BitAt(regs[reg], bit) = call.mode
            /\ \A r \in Regs \ {reg} : regs[r] = pre[r]
            /\ call.mode = HIGH =>
                  /\ \A b \in (0..7) \ {bit} : BitAt(thenLow[reg], b) = BitAt(pre[reg], b)
                  /\ BitAt(thenLow[reg], bit) = 0

\* pinWrite(p, HIGH) raised a latch bit while the live input register of the
\* bank differed from the latch in another bit.
C3_Witness ==
    /\ call.op = "pinWrite"
    /\ call.pin \in 0..15
    /\ call.mode = HIGH
    /\ AllOk
    /\ BitAt(pre[Bank(call.pin, OLATA, OLATB)], call.pin % 8) = 0
    /\ BitAt(regs[Bank(call.pin, OLATA, OLATB)], call.pin % 8) = 1
    /\ \E b \in (0..7) \ {call.pin % 8} :
          BitAt(pre[Bank(call.pin, GPIOA, GPIOB)], b) # BitAt(pre[Bank(call.pin, OLATA, OLATB)], b)

\* C4: with all transactions succeeding getInterruptFlags returns
\* 256 * (bank B flag byte) + (bank A flag byte): bit i of the result is the
\* flag bit of pin i.
C4_FlagsAssembly ==
    (call.op = "getInterruptFlags" /\ AllOk) =>
        /\ ret = <<256 * pre[INTFB] + pre[INTFA]>>
        /\ \A i \in 0..15 :
              BitAt(ret[1], i) = BitAt(pre[Bank(i, INTFA, INTFB)], i % 8)

\* getInterruptFlags ran with different non-zero flag bytes in the two banks.
C4_Witness ==
    /\ call.op = "getInterruptFlags"
    /\ AllOk
    /\ pre[INTFA] = 5
    /\ pre[INTFB] = 129
    /\ ret = <<33029>>

\* C5: after intTriggerMode(p, mode) on a valid pin with all transactions
\* succeeding, RISING leaves the control bit and the compare bit 1, FALLING
\* leaves the control bit 1 and the compare bit 0, CHANGE leaves the control
\* bit 0 and the compare bit as it was.
C5_TriggerBits ==
    (/\ call.op = "intTriggerMode"
     /\ call.pin \in 0..15
     /\ call.mode \in {CHANGE, RISING, FALLING}
     /\ AllOk) =>
        LET bit == call.pin % 8
            c == BitAt(regs[Bank(call.pin, INTCONA, INTCONB)], bit)
            v == BitAt(regs[Bank(call.pin, DEFVALA, DEFVALB)], bit)
            v0 == BitAt(pre[Bank(call.pin, DEFVALA, DEFVALB)], bit)
        IN  /\ Len(log) = 4
            /\ call.mode = RISING => (c = 1 /\ v = 1)
            /\ call.mode = FALLING => (c = 1 /\ v = 0)
            /\ call.mode = CHANGE => (c = 0 /\ v = v0)

\* intTriggerMode(p, CHANGE) ran on a pin whose control bit was 1 and whose
\* compare bit was 0.
C5_Witness ==
    /\ call.op = "intTriggerMode"
    /\ call.pin \in 0..15
    /\ call.mode = CHANGE
    /\ AllOk
    /\ BitAt(pre[Bank(call.pin, INTCONA, INTCONB)], call.pin % 8) = 1
    /\ BitAt(pre[Bank(call.pin, DEFVALA, DEFVALB)], call.pin % 8) = 0
    /\ BitAt(regs[Bank(call.pin, INTCONA, INTCONB)], call.pin % 8) = 0

\* C6: after intOutputMode(polarity, openDrain, mirrored) bit 2 of the control
\* register equals openDrain, bit 6 equals mirrored, and bit 1 is 1 iff
\* openDrain is false and polarity is HIGH.
C6_IntOutputBits ==
    (call.op = "intOutputMode" /\ AllOk) =>
        /\ Len(log) = 2
        /\ BitAt(regs[IOCON], 2) = (IF call.a THEN 1 ELSE 0)
        /\ BitAt(regs[IOCON], 6) = (IF call.b THEN 1 ELSE 0)
        /\ BitAt(regs[IOCON], 1) = (IF ~call.a /\ call.mode = HIGH THEN 1 ELSE 0)

\* intOutputMode(HIGH, openDrain = true, ...) ran while the polarity bit was set.
C6_Witness ==
    /\ call.op = "intOutputMode"
    /\ AllOk
    /\ call.a
    /\ call.mode = HIGH
    /\ BitAt(pre[IOCON], 1) = 1
    /\ BitAt(regs[IOCON], 1) = 0

\* Both concurrent pinMode calls have returned, on two different valid pins.
BothDone ==
    /\ \A t \in Threads : th[t].pc = "done"
    /\ th[1].pin # th[2].pin
    /\ \A t \in Threads : pinCheck(th[t].pin)

\* The direction and pull-up bits of thread t's pin are what its mode asks for.
Applied(t) ==
    LET bit == th[t].pin % 8
        d == BitAt(regs[ThRegDir(t)], bit)
        u == BitAt(regs[ThRegPup(t)], bit)
    IN  /\ d = (IF th[t].mode = OUTPUT THEN 0 ELSE 1)
        /\ u = (IF th[t].mode = INPUT_PULLUP THEN 1 ELSE 0)

\* C7: the driver takes no lock.  When each of two pinMode calls on different
\* pins runs to completion before the other starts, both pins' changes are in
\* the registers; a lost change is reachable only when the calls' register
\* transactions interleave (C7_LostUpdate).
C7_SerializedKeepsBoth ==
    (BothDone /\ ~overlap) => \A t \in Threads : Applied(t)

\* Two interleaved pinMode calls on different pins of one bank have returned
\* and one pin's direction or pull-up change is lost.
C7_LostUpdate ==
    /\ BothDone
    /\ overlap
    /\ (th[1].pin < 8) = (th[2].pin < 8)
    /\ \E t \in Threads : ~Applied(t)

\* C8: when a read that primes a read-modify-write fails on an opened
\* instance, the operation aborts: no register write follows the failed read
\* and no register changes.
C8_FailedReadAborts ==
    (call.op \in RmwOps /\ fd >= 0 /\ addrOk) =>
        \A i \in 1..Len(log) :
            (log[i].kind = "R" /\ ~log[i].ok) =>
                /\ \A j \in (i + 1)..Len(log) : log[j].kind # "W"
                /\ regs = pre

\* C9: after an open failure every public operation fails fast: it attempts
\* no read or write transaction on the handle.
C9_FailFastAfterOpenFailure ==
    ((fd < 0 \/ ~addrOk) /\ call.op \notin {"idle", "MCP23017"}) => log = <<>>

\* C10: a call whose enumerated argument is outside its defined set issues no
\* transaction and leaves all registers unchanged.
C10_InvalidEnumNoTraffic ==
    (\/ call.op = "pinMode" /\ call.mode \notin {OUTPUT, INPUT, INPUT_PULLUP}
     \/ call.op = "pinWrite" /\ call.mode \notin {HIGH, LOW}
     \/ call.op = "intTriggerMode" /\ call.mode \notin {CHANGE, RISING, FALLING}) =>
        (log = <<>> /\ regs = pre)

\* A successful read of reg that returned value.
Rd(reg, value) == [kind |-> "R", reg |-> reg, value |-> value, ok |-> TRUE]

\* A successful write of value to reg.
Wr(reg, value) == [kind |-> "W", reg |-> reg, value |-> value, ok |-> TRUE]

\* The 16-bit flag field held by the register file r: bank B in the high byte.
FlagsOf(r) == 256 * r[INTFB] + r[INTFA]

\* The 16-bit capture field held by the register file r.
CapturedOf(r) == 256 * r[INTCAPB] + r[INTCAPA]

\* The elements of a sequence.
Range(s) == {s[k] : k \in 1..Len(s)}

\* The operations built on readIntFlags.
FlagQueries == {"getInterruptFlags", "getInterruptPins", "isInterruptOnPin"}

\* C11: getInterruptFlags, getInterruptPins and isInterruptOnPin (valid pin)
\* read both flag registers first; with clear = true they then write 0x00 to
\* the bank A and the bank B flag register and still return the flags as
\* read before the clear; with clear = false they issue no write.
C11_ClearAfterRead ==
    (call.op \in FlagQueries /\ (call.op = "isInterruptOnPin" => call.pin \in 0..15)) =>
        LET reads == <<Rd(INTFA, pre[INTFA]), Rd(INTFB, pre[INTFB])>>
            flags == FlagsOf(pre)
        IN  /\ IF call.a
               THEN /\ log = reads \o <<Wr(INTFA, 0), Wr(INTFB, 0)>>
                    /\ regs = [pre EXCEPT ![INTFA] = 0, ![INTFB] = 0]
               ELSE /\ log = reads
                    /\ regs = pre
            /\ call.op = "getInterruptFlags" => ret = <<flags>>
            /\ call.op = "getInterruptPins" =>
                  \A i \in 0..15 : (i \in Range(ret)) <=> (BitAt(flags, i) = 1)
            /\ call.op = "isInterruptOnPin" => ret = <<BitAt(flags, call.pin) = 1>>

\* isInterruptOnPin(8, clear = true) found the flag of pin 8 set while bank A
\* held flags too, returned true and left both flag registers zero.
C11_Witness ==
    /\ call.op = "isInterruptOnPin"
    /\ call.pin = 8
    /\ call.a
    /\ pre[INTFA] # 0
    /\ BitAt(pre[INTFB], 0) = 1
    /\ ret = <<TRUE>>
    /\ log[3] = Wr(INTFA, 0)
    /\ log[4] = Wr(INTFB, 0)
    /\ regs[INTFA] = 0
    /\ regs[INTFB] = 0

\* C12: pinRead(p) returns ERROR iff p is outside [0,15]; for a valid p it
\* issues one read of the live input register of p's bank (GPIOA iff p < 8),
\* returns HIGH iff bit (p mod 8) of the byte read is 1 and LOW otherwise,
\* and writes no register.
C12_PinRead ==
    (call.op = "pinRead") =>
        LET reg == Bank(call.pin, GPIOA, GPIOB)
            bit == call.pin % 8
        IN  /\ (ret = <<ERROR>>) <=> (call.pin \notin 0..15)
            /\ \A i \in 1..Len(log) : log[i].kind # "W"
            /\ regs = pre
            /\ call.pin \in 0..15 =>
                  /\ Len(log) = 1
                  /\ log[1].kind = "R"
                  /\ log[1].reg = reg
                  /\ AllOk => /\ log[1].value = pre[reg]
                              /\ ret = <<IF BitAt(pre[reg], bit) = 1 THEN HIGH ELSE LOW>>

\* pinRead returned HIGH for a pin whose input bit is 1 while its latch bit is 0.
C12_Witness ==
    /\ call.op = "pinRead"
    /\ call.pin \in 0..15
    /\ AllOk
    /\ BitAt(pre[Bank(call.pin, GPIOA, GPIOB)], call.pin % 8) = 1
    /\ BitAt(pre[Bank(call.pin, OLATA, OLATB)], call.pin % 8) = 0
    /\ ret = <<HIGH>>

\* C13: getInterruptPins returns exactly the pin indices i in 0..15 whose
\* bit i is set in the assembled 16-bit flag field, each once, in strictly
\* ascending order: flags 0x0005 give <<0, 2>> and flags 0 give <<>>.
C13_PinsAscending ==
    (call.op = "getInterruptPins") =>
        LET flags == FlagsOf(pre)
        IN  /\ \A i \in 0..15 : (i \in Range(ret)) <=> (BitAt(flags, i) = 1)
            /\ \A j \in 1..Len(ret), k \in 1..Len(ret) : j < k => ret[j] < ret[k]
            /\ Range(ret) \subseteq 0..15
            /\ flags = 5 => ret = <<0, 2>>
            /\ flags = 0 => ret = <<>>

\* getInterruptPins decoded flags with bits 0, 2 and 15 set.
C13_Witness ==
    /\ call.op = "getInterruptPins"
    /\ pre[INTFA] = 5
    /\ pre[INTFB] = 128
    /\ ret = <<0, 2, 15>>

\* C14: getIntCapture returns exactly one (pin, level) entry for each pin
\* whose flag bit is set in the flag registers it read, in ascending pin
\* order; level is bit i of the capture field (bank B capture in the high
\* byte, bank A capture in the low byte); a pin whose flag is clear has no entry.
C14_CaptureEntries ==
    (call.op = "getIntCapture") =>
        LET flags == FlagsOf(pre)
            captured == CapturedOf(pre)
        IN  /\ SubSeq(log, 1, 4) = <<Rd(INTFA, pre[INTFA]), Rd(INTFB, pre[INTFB]),
                                     Rd(INTCAPA, pre[INTCAPA]), Rd(INTCAPB, pre[INTCAPB])>>
            /\ \A i \in 0..15 :
                  (\E k \in 1..Len(ret) : ret[k].pin = i) <=> (BitAt(flags, i) = 1)
            /\ \A j \in 1..Len(ret), k \in 1..Len(ret) : j < k => ret[j].pin < ret[k].pin
            /\ \A k \in 1..Len(ret) :
                  ret[k].level = (BitAt(captured, ret[k].pin) = 1)

\* getIntCapture reported pins of both banks with both levels.
C14_Witness ==
    /\ call.op = "getIntCapture"
    /\ pre[INTFA] = 5
    /\ pre[INTFB] = 129
    /\ pre[INTCAPA] = 90
    /\ pre[INTCAPB] = 255
    /\ ret = <<[pin |-> 0, level |-> FALSE], [pin |-> 2, level |-> FALSE],
               [pin |-> 8, level |-> TRUE], [pin |-> 15, level |-> TRUE]>>

\* C15: getIntCapture(clear = true) issues, after its four flag and capture
\* reads, one read of the live input register of the bank of each reported
\* pin (GPIOA for pins 0-7, GPIOB for pins 8-15), in the order reported, and
\* never writes a register; with clear = false, or when no flag is set, it
\* issues the four reads only.
C15_CaptureAcknowledge ==
    (call.op = "getIntCapture") =>
        /\ \A i \in 1..Len(log) : log[i].kind = "R"
        /\ regs = pre
        /\ Len(log) >= 4
        /\ \A i \in 1..4 : log[i].reg \notin {GPIOA, GPIOB}
        /\ IF call.a
           THEN /\ Len(log) = 4 + Len(ret)
                /\ \A k \in 1..Len(ret) :
                      log[4 + k] = Rd(Bank(ret[k].pin, GPIOA, GPIOB),
                                      pre[Bank(ret[k].pin, GPIOA, GPIOB)])
           ELSE Len(log) = 4
        /\ FlagsOf(pre) = 0 => Len(log) = 4

\* getIntCapture(clear = true) reported two pins of bank A and two of bank B
\* and read GPIOA twice, then GPIOB twice.
C15_Witness ==
    /\ call.op = "getIntCapture"
    /\ call.a
    /\ Len(ret) = 4
    /\ Len(log) = 8
    /\ log[5].reg = GPIOA
    /\ log[6].reg = GPIOA
    /\ log[7].reg = GPIOB
    /\ log[8].reg = GPIOB
    /\ regs[INTFA] = pre[INTFA]
    /\ pre[INTFA] # 0

\* C16: clearInterrupts issues exactly four transactions in this order: read
\* the bank A input register, read the bank B input register, write 0x00 to
\* the bank A flag register, write 0x00 to the bank B flag register.
C16_ClearInterruptsSequence ==
    (call.op = "clearInterrupts") =>
        /\ Len(log) = 4
        /\ [i \in 1..4 |-> <<log[i].kind, log[i].reg>>] =
              << <<"R", GPIOA>>, <<"R", GPIOB>>, <<"W", INTFA>>, <<"W", INTFB>> >>
        /\ log[3].value = 0
        /\ log[4].value = 0
        /\ (fd >= 0 /\ addrOk) =>
              /\ log = <<Rd(GPIOA, pre[GPIOA]), Rd(GPIOB, pre[GPIOB]),
                         Wr(INTFA, 0), Wr(INTFB, 0)>>
              /\ regs = [pre EXCEPT ![INTFA] = 0, ![INTFB] = 0]

\* clearInterrupts ran on an opened instance whose flag registers were not
\* both zero, and left them zero.
C16_Witness ==
    /\ call.op = "clearInterrupts"
    /\ AllOk
    /\ pre[INTFA] # 0
    /\ pre[INTFB] # 0
    /\ log[1] = Rd(GPIOA, pre[GPIOA])
    /\ log[4] = Wr(INTFB, 0)
    /\ regs[INTFA] = 0
    /\ regs[INTFB] = 0

\* C17: the constructor issues its two writes of 0xFF, to the bank A and then
\* the bank B direction register, iff both open() and the address selection
\* succeeded; when either failed it issues no transaction and changes no
\* register; on success each direction register whose write went through
\* holds 0xFF right after construction and no other register has changed.
C17_ConstructorWrites ==
    (call.op = "MCP23017") =>
        /\ (log # <<>>) <=> (fd >= 0 /\ addrOk)
        /\ (fd >= 0 /\ addrOk) =>
              /\ Len(log) = 2
              /\ [i \in 1..2 |-> <<log[i].kind, log[i].reg, log[i].value>>] =
                    << <<"W", IODIRA, 255>>, <<"W", IODIRB, 255>> >>
              /\ log[1].ok => regs[IODIRA] = 255
              /\ log[2].ok => regs[IODIRB] = 255
              /\ \A r \in Regs \ {IODIRA, IODIRB} : regs[r] = pre[r]
        /\ ~(fd >= 0 /\ addrOk) => regs = pre

\* Construction succeeded on a chip whose direction registers held outputs:
\* both now read all-inputs.
C17_Witness ==
    /\ call.op = "MCP23017"
    /\ fd >= 0
    /\ addrOk
    /\ AllOk
    /\ pre[IODIRA] # 255
    /\ pre[IODIRB] # 255
    /\ regs[IODIRA] = 255
    /\ regs[IODIRB] = 255

\* C18: bits 4 and 5 of the control register are disable bits: after
\* setSequentialOperation(true) bit 5 is 0 and after
\* setSequentialOperation(false) it is 1; after enableSlewRateControl(true)
\* bit 4 is 0 and after enableSlewRateControl(false) it is 1.
C18_DisableBits ==
    /\ (call.op = "setSequentialOperation" /\ AllOk) =>
          BitAt(regs[IOCON], 5) = (IF call.a THEN 0 ELSE 1)
    /\ (call.op = "enableSlewRateControl" /\ AllOk) =>
          BitAt(regs[IOCON], 4) = (IF call.a THEN 0 ELSE 1)

\* The registers a configuring call may write: those of its own kind in the
\* bank of its pin, or the control register.
Targets(c) ==
    CASE c.op = "pinMode" -> {Bank(c.pin, IODIRA, IODIRB), Bank(c.pin, GPPUA, GPPUB)}
      [] c.op = "pinWrite" -> {Bank(c.pin, OLATA, OLATB)}
      [] c.op = "enableInt" -> {Bank(c.pin, GPINTENA, GPINTENB)}
      [] c.op = "intTriggerMode" -> {Bank(c.pin, INTCONA, INTCONB), Bank(c.pin, DEFVALA, DEFVALB)}
      [] OTHER -> {IOCON}

\* The bit positions a configuring call may change in its target registers.
TargetBits(c) ==
    CASE c.op = "intOutputMode" -> {1, 2, 6}
      [] c.op = "enableSlewRateControl" -> {4}
      [] c.op = "setSequentialOperation" -> {5}
      [] OTHER -> {c.pin % 8}

\* C19: with serialized calls and successful transactions a configuring call
\* writes only registers of its own kind in the bank of its pin (or the
\* control register) and changes at most its own bit(s) in them, relative to
\* the contents when the call started; every other bit of every register,
\* the other bank included, is unchanged.
C19_FrameOfConfigOps ==
    (/\ call.op \in RmwOps
     /\ call.op \in PinOps => call.pin \in 0..15
     /\ AllOk) =>
        /\ \A i \in 1..Len(log) : log[i].kind = "W" => log[i].reg \in Targets(call)
        /\ \A r \in Regs, b \in 0..7 :
              BitAt(regs[r], b) # BitAt(pre[r], b) =>
                  (r \in Targets(call) /\ b \in TargetBits(call))

\* enableInt(p, false) cleared the enable bit of p in a register whose other
\* bits were set, and they are still set.
C19_Witness ==
    /\ call.op = "enableInt"
    /\ call.pin \in 0..15
    /\ ~call.a
    /\ AllOk
    /\ pre[Bank(call.pin, GPINTENA, GPINTENB)] = 255
    /\ regs[Bank(call.pin, GPINTENA, GPINTENB)] = 255 - Shl1(call.pin % 8)

\* The pin indices callers pass that pinCheck accepts.
ValidPins == {p \in PinArgs : pinCheck(p)}

\* The per-pin configuring calls with defined arguments.
PinConfigCalls ==
    {CallRec("pinMode", p, mode, FALSE, FALSE, {}) :
        p \in ValidPins, mode \in {OUTPUT, INPUT, INPUT_PULLUP}}
    \cup {CallRec("pinWrite", p, value, FALSE, FALSE, {}) :
        p \in ValidPins, value \in {HIGH, LOW}}
    \cup {CallRec("enableInt", p, NoArg, enable, FALSE, {}) :
        p \in ValidPins, enable \in BOOLEAN}
    \cup {CallRec("intTriggerMode", p, mode, FALSE, FALSE, {}) :
        p \in ValidPins, mode \in {CHANGE, RISING, FALLING}}

\* The register file after the call c has run to completion on the register
\* file r, all transactions succeeding.
Apply(c, r) ==
    LET m == Machine(r, <<>>)
    IN  CASE c.op = "pinMode" -> pinMode(m, IO({}), c.pin, c.mode).m.regs
          [] c.op = "pinWrite" -> pinWrite(m, IO({}), c.pin, c.mode).m.regs
          [] c.op = "enableInt" -> enableInt(m, IO({}), c.pin, c.a).m.regs
          [] c.op = "intTriggerMode" -> intTriggerMode(m, IO({}), c.pin, c.mode).m.regs

\* C20: with each call running to completion before the next starts and all
\* transactions succeeding, configuring calls (pinMode, pinWrite, enableInt,
\* intTriggerMode) on two different pins commute: the call that just returned
\* on pin p followed by any such call on a pin q # p leaves every register as
\* the two calls made in the opposite order from the same starting contents.
C20_DifferentPinsCommute ==
    (call \in PinConfigCalls /\ AllOk) =>
        /\ regs = Apply(call, pre)
        /\ \A d \in PinConfigCalls :
              d.pin # call.pin => Apply(d, regs) = Apply(call, Apply(d, pre))

\* pinMode(0, OUTPUT) returned having changed the bank A direction register,
\* and pinMode(7, OUTPUT) would change the same register again.
C20_Witness ==
    /\ call = CallRec("pinMode", 0, OUTPUT, FALSE, FALSE, {})
    /\ AllOk
    /\ regs[IODIRA] # pre[IODIRA]
    /\ LET d == CallRec("pinMode", 7, OUTPUT, FALSE, FALSE, {})
       IN  /\ Apply(d, regs)[IODIRA] # regs[IODIRA]
           /\ Apply(d, regs)[IODIRA] # Apply(d, pre)[IODIRA]
           /\ Apply(d, regs) = Apply(call, Apply(d, pre))

====
